---- MODULE Spec2Model ----
(***************************************************************************)
(* Model of DBOps (src/main/database_ops.py): the data-access layer over   *)
(* the patient, models and patient-cohort collections of a document store. *)
(*                                                                         *)
(* Encoding of Python values:                                              *)
(*   None            <<>>                                                  *)
(*   a scalar v      <<v>>      (a number or a string that is present)     *)
(*   a pair [a, b]   <<a, b>>   (the two-element series list)              *)
(* A document's _id is its position in its collection: documents are only  *)
(* ever inserted, never removed, and find()/find_one() answer in insertion *)
(* order.  bmi and bsa are kept in hundredths (round(x, 2) * 100).         *)
(***************************************************************************)
EXTENDS Integers, Sequences, FiniteSets, TLC

VARIABLES patient, models, cohort, ret

vars == <<patient, models, cohort, ret>>

-----------------------------------------------------------------------------
(* Bounds of the model *)

\* the patient collection never grows beyond this many documents
MaxPatients == 3
\* the largest number of documents the database holds when DBOps is constructed
MaxInitPatients == 2
\* the longest list handed to one call (patients_list, internal_id_list, patient_ids)
MaxBatch == 2

-----------------------------------------------------------------------------
(* Python values *)

None == <<>>

Some(v) == <<v>>

IsNone(x) == x = None

\* bool(x) of an optional number: None and 0 are falsy
TruthyNum(x) == x # None /\ x[1] # 0

\* bool(x) of an optional string: None and "" are falsy
TruthyStr(x) == x # None /\ x[1] # ""

\* bool(series): None, "" and [] are falsy; a pair is truthy
TruthySeries(s) == s # None /\ s # <<"">>

\* isinstance(series, list)
IsList(s) == Len(s) = 2

Indices(s) == [i \in 1..Len(s) |-> i]

\* all sequences over S of length lo..hi
SeqsOf(S, lo, hi) == UNION {[1..n -> S] : n \in lo..hi}

-----------------------------------------------------------------------------
(* Patient identity resolution *)

\* to_query with the test off by one: two matches pass, three are fatal
to_query_TwoAllowed(pat, internal_id, series) ==
    LET query == IF TruthySeries(series)
                 THEN SelectSeq(Indices(pat),
                        LAMBDA i : /\ pat[i].internal_id = internal_id
                                   /\ pat[i].series = series)
                 ELSE SelectSeq(Indices(pat),
                        LAMBDA i : pat[i].internal_id = internal_id)
    IN  IF Len(query) > 2
        THEN [exc |-> "SystemExit", query |-> <<>>]
        ELSE [exc |-> "none", query |-> query]

\* one to_query call: the documents matched, or the fatal error
to_query(pat, internal_id, series) ==
    LET query == IF TruthySeries(series)
                 THEN SelectSeq(Indices(pat),
                        LAMBDA i : /\ pat[i].internal_id = internal_id
                                   /\ pat[i].series = series)
                 ELSE SelectSeq(Indices(pat),
                        LAMBDA i : pat[i].internal_id = internal_id)
    IN  IF Len(query) > 1
        THEN [exc |-> "SystemExit", query |-> <<>>]
        ELSE [exc |-> "none", query |-> query]

\* get_patient_collection without the second query: the pair is only looked
\* up in the order given
get_patient_collection_OrderGiven(pat, internal_id, series) ==
    LET q == to_query(pat, internal_id, series)
    IN  [exc |-> q.exc, query |-> q.query, tried |-> <<series>>]

\* get_patient_collection: exc, the list of documents returned (by _id), and
\* the series of every to_query call made, in order
get_patient_collection(pat, internal_id, series) ==
    IF IsList(series)
    THEN LET q1 == to_query(pat, internal_id, series)
             rev == <<series[2], series[1]>>
         IN  IF q1.exc # "none"
             THEN [exc |-> q1.exc, query |-> <<>>, tried |-> <<series>>]
             ELSE IF q1.query = <<>>
             THEN LET q2 == to_query(pat, internal_id, rev)
                  IN  [exc |-> q2.exc, query |-> q2.query,
                       tried |-> <<series, rev>>]
             ELSE [exc |-> "none", query |-> q1.query, tried |-> <<series>>]
    ELSE LET q == to_query(pat, internal_id, series)
         IN  [exc |-> q.exc, query |-> q.query, tried |-> <<series>>]

-----------------------------------------------------------------------------
(* Derived metrics (src/main/utilities/utils.py) *)

\* round(weight / (height / 100) ** 2, 2), in hundredths; height is not 0
calculate_bmi(weight, height) ==
    IF IsNone(weight) \/ IsNone(height)
    THEN None
    ELSE LET w == weight[1]
             h == height[1]
         IN  Some((2 * w * 1000000 + h * h) \div (2 * h * h))

\* the largest k in lo..hi with k * k <= x (math.sqrt, rounded down)
RECURSIVE FloorSqrt(_, _, _)
FloorSqrt(lo, hi, x) ==
    IF lo >= hi
    THEN lo
    ELSE LET mid == (lo + hi + 1) \div 2
         IN  IF mid * mid <= x
             THEN FloorSqrt(mid, hi, x)
             ELSE FloorSqrt(lo, mid - 1, x)

\* round(sqrt(weight * height / 3600), 2), in hundredths: the n nearest to
\* 100 * sqrt(w * h / 3600), i.e. (2n - 1)^2 <= 100 * w * h / 9 < (2n + 1)^2;
\* the root is at most 2 * (w + h)
calculate_mosteller_bsa(weight, height) ==
    IF IsNone(weight) \/ IsNone(height)
    THEN None
    ELSE LET w == weight[1]
             h == height[1]
             q == (100 * w * h) \div 9
         IN  Some((FloorSqrt(0, 2 * (w + h), q) + 1) \div 2)

-----------------------------------------------------------------------------
(* Cohort dimension aggregator *)

\* UpdateDim taking a missing value for 0
UpdateDim_MissingIsZero(b, v) ==
    LET w == IF v = None THEN <<0>> ELSE v
    IN  IF b.min # None /\ w[1] < b.min[1]
        THEN [b EXCEPT !.min = w]
        ELSE IF b.max # None /\ w[1] > b.max[1]
        THEN [b EXCEPT !.max = w]
        ELSE IF b.min = None /\ b.max = None
        THEN [min |-> w, max |-> w]
        ELSE b

\* UpdateDim with the first branch assigning to max instead of min
UpdateDim_MinBranchSetsMax(b, v) ==
    IF b.min # None /\ v # None /\ v[1] < b.min[1]
    THEN [b EXCEPT !.max = v]
    ELSE IF b.max # None /\ v # None /\ v[1] > b.max[1]
    THEN [b EXCEPT !.max = v]
    ELSE IF b.min = None /\ b.max = None /\ v # None
    THEN [min |-> v, max |-> v]
    ELSE b

NullBounds == [min |-> None, max |-> None]

\* one pass of the if / elif / elif of _update_max_min_patient_dimensions_in_cohort
\* for one dimension: b is cohort_doc[i], v is patient_doc[i]
UpdateDim(b, v) ==
    IF b.min # None /\ v # None /\ v[1] < b.min[1]
    THEN [b EXCEPT !.min = v]
    ELSE IF b.max # None /\ v # None /\ v[1] > b.max[1]
    THEN [b EXCEPT !.max = v]
    ELSE IF b.min = None /\ b.max = None /\ v # None
    THEN [min |-> v, max |-> v]
    ELSE b

\* the same three branches, as written again in set_max_min_patient_dimensions_in_cohort
SetDim(b, v) ==
    IF b.min # None /\ v # None /\ v[1] < b.min[1]
    THEN [b EXCEPT !.min = v]
    ELSE IF b.max # None /\ v # None /\ v[1] > b.max[1]
    THEN [b EXCEPT !.max = v]
    ELSE IF b.min = None /\ b.max = None /\ v # None
    THEN [min |-> v, max |-> v]
    ELSE b

\* database.patient.find_one({"_id": id_}): is there such a document
PatientExists(pat, id_) == id_ \in 1..Len(pat)

\* the loop over patient_ids of _update_max_min_patient_dimensions_in_cohort on
\* the local cohort_doc; patient_doc[i] of a missing patient raises TypeError
RECURSIVE UpdateLoop(_, _, _)
UpdateLoop(doc, pat, patient_ids) ==
    IF patient_ids = <<>>
    THEN [exc |-> "none", doc |-> doc]
    ELSE LET id_ == Head(patient_ids)
         IN  IF ~PatientExists(pat, id_)
             THEN [exc |-> "TypeError", doc |-> doc]
             ELSE UpdateLoop([doc EXCEPT
                                !.height = UpdateDim(doc.height, pat[id_].height),
                                !.weight = UpdateDim(doc.weight, pat[id_].weight)],
                             pat, Tail(patient_ids))

\* _update_max_min_patient_dimensions_in_cohort: the bounds are written back
\* only when the loop ends without an exception
update_max_min_patient_dimensions_in_cohort(coh, pat, patient_ids) ==
    LET r == UpdateLoop(coh, pat, patient_ids)
    IN  IF r.exc # "none"
        THEN [exc |-> r.exc, cohort |-> coh]
        ELSE [exc |-> "none",
              cohort |-> [coh EXCEPT !.height = r.doc.height,
                                     !.weight = r.doc.weight]]

\* $push in the place of $addToSet: every id is appended, present or not
AddToSet_Push(arr, each) == arr \o each

\* $addToSet with $each: every id not yet in the array is appended, in order
RECURSIVE AddToSet(_, _)
AddToSet(arr, each) ==
    IF each = <<>>
    THEN arr
    ELSE AddToSet(IF \E k \in 1..Len(arr) : arr[k] = Head(each)
                  THEN arr
                  ELSE Append(arr, Head(each)),
                  Tail(each))

\* add_patients_to_cohort: the cohort document after the call, the exception
\* raised (if any) and the list returned
add_patients_to_cohort(coh, pat, patient_ids) ==
    LET c1 == [coh EXCEPT !.patient_ids = AddToSet(coh.patient_ids, patient_ids)]
        c2 == [c1 EXCEPT !.number_patients = Len(c1.patient_ids)]
        r  == update_max_min_patient_dimensions_in_cohort(c2, pat, patient_ids)
    IN  [exc |-> r.exc, cohort |-> r.cohort,
         value |-> IF r.exc = "none" THEN r.cohort.patient_ids ELSE <<>>]

\* the loop over cohort_doc["patient_ids"] of set_max_min_patient_dimensions_in_cohort
RECURSIVE SetLoop(_, _, _)
SetLoop(doc, pat, patient_ids) ==
    IF patient_ids = <<>>
    THEN [exc |-> "none", doc |-> doc]
    ELSE LET id_ == Head(patient_ids)
         IN  IF ~PatientExists(pat, id_)
             THEN [exc |-> "TypeError", doc |-> doc]
             ELSE SetLoop([doc EXCEPT
                             !.height = SetDim(doc.height, pat[id_].height),
                             !.weight = SetDim(doc.weight, pat[id_].weight)],
                          pat, Tail(patient_ids))

\* set_max_min_patient_dimensions_in_cohort: cohort_doc starts as the stored
\* document, bounds included
set_max_min_patient_dimensions_in_cohort(coh, pat) ==
    LET r == SetLoop(coh, pat, coh.patient_ids)
    IN  IF r.exc # "none"
        THEN [exc |-> r.exc, cohort |-> coh]
        ELSE [exc |-> "none",
              cohort |-> [coh EXCEPT !.height = r.doc.height,
                                     !.weight = r.doc.weight]]

-----------------------------------------------------------------------------
(* Demographic update and derived metrics *)

AgeRange == 0..120

Genders == {"male", "female"}

OriginLocations ==
    {"europe", "asia_pacific", "north_south_america", "middle_east_africa"}

\* update_many({"internal_info.internal_id": internal_id}, {"$set": {f: v}})
UpdateMany(pat, internal_id, f, v) ==
    [i \in 1..Len(pat) |->
        IF pat[i].internal_id = internal_id
        THEN [pat[i] EXCEPT ![f] = v]
        ELSE pat[i]]

\* find_one({"internal_info.internal_id": internal_id}): the _id of the first
\* document of that human, 0 when there is none (find_one answers None)
FindOne(pat, internal_id) ==
    IF \E i \in 1..Len(pat) : pat[i].internal_id = internal_id
    THEN CHOOSE i \in 1..Len(pat) :
            /\ pat[i].internal_id = internal_id
            /\ \A j \in 1..(i - 1) : pat[j].internal_id # internal_id
    ELSE 0

Ok(pat) == [exc |-> "none", patient |-> pat]

Raise(e, pat) == [exc |-> e, patient |-> pat]

\* lines 329-334: the age check, then the age write
AgeStage(pat, internal_id, kw) ==
    IF kw.age # None /\ kw.age[1] \notin AgeRange
    THEN Raise("ValueError", pat)
    ELSE IF TruthyNum(kw.age)
    THEN Ok(UpdateMany(pat, internal_id, "age", kw.age))
    ELSE Ok(pat)

\* lines 335-340: the gender check, then the gender write
GenderStage(pat, internal_id, kw) ==
    IF kw.gender # None /\ kw.gender[1] \notin Genders
    THEN Raise("ValueError", pat)
    ELSE IF TruthyStr(kw.gender)
    THEN Ok(UpdateMany(pat, internal_id, "gender", kw.gender))
    ELSE Ok(pat)

\* lines 344-359: the height write, then bmi and bsa from the weight of the
\* first document of that human
HeightStage(pat, internal_id, kw) ==
    IF ~TruthyNum(kw.height)
    THEN Ok(pat)
    ELSE LET p1 == UpdateMany(pat, internal_id, "height", kw.height)
             first == FindOne(p1, internal_id)
         IN  IF first = 0
             THEN Raise("TypeError", p1)
             ELSE LET check_weight == p1[first].weight
                  IN  IF check_weight = None
                      THEN Ok(p1)
                      ELSE Ok(UpdateMany(
                                UpdateMany(p1, internal_id, "bmi",
                                           calculate_bmi(check_weight, kw.height)),
                                internal_id, "bsa",
                                calculate_mosteller_bsa(check_weight, kw.height)))

\* lines 360-375: the weight write, then bmi and bsa from the height of the
\* first document of that human
WeightStage(pat, internal_id, kw) ==
    IF ~TruthyNum(kw.weight)
    THEN Ok(pat)
    ELSE LET p1 == UpdateMany(pat, internal_id, "weight", kw.weight)
             first == FindOne(p1, internal_id)
         IN  IF first = 0
             THEN Raise("TypeError", p1)
             ELSE LET check_height == p1[first].height
                  IN  IF check_height = None
                      THEN Ok(p1)
                      ELSE IF check_height[1] = 0
                      THEN Raise("ZeroDivisionError", p1)
                      ELSE Ok(UpdateMany(
                                UpdateMany(p1, internal_id, "bmi",
                                           calculate_bmi(kw.weight, check_height)),
                                internal_id, "bsa",
                                calculate_mosteller_bsa(kw.weight, check_height)))

\* lines 377-392: the origin location check, then its write
LocationStage(pat, internal_id, kw) ==
    IF kw.loc # None /\ kw.loc[1] \notin OriginLocations
    THEN Raise("ValueError", pat)
    ELSE IF TruthyStr(kw.loc)
    THEN Ok(UpdateMany(pat, internal_id, "origin_location", kw.loc))
    ELSE Ok(pat)

\* update_human_demographics: the patient collection the call leaves behind and
\* the exception that ended it; a stage runs unless an exception has ended the
\* call.  kw holds age, gender, height, weight and loc, each None when not
\* supplied; numbers are int, so the isinstance checks pass
update_human_demographics(pat, internal_id, kw) ==
    LET r1 == AgeStage(pat, internal_id, kw)
        r2 == IF r1.exc # "none" THEN r1
              ELSE GenderStage(r1.patient, internal_id, kw)
        r3 == IF r2.exc # "none" THEN r2
              ELSE HeightStage(r2.patient, internal_id, kw)
        r4 == IF r3.exc # "none" THEN r3
              ELSE WeightStage(r3.patient, internal_id, kw)
    IN  IF r4.exc # "none" THEN r4
        ELSE LocationStage(r4.patient, internal_id, kw)

-----------------------------------------------------------------------------
(* Batch ingestion *)

\* a patient collection document
PatientDoc(internal_id, series, height, weight) ==
    [internal_id     |-> internal_id,
     series          |-> series,
     age             |-> None,
     gender          |-> None,
     height          |-> height,
     weight          |-> weight,
     origin_location |-> None,
     bmi             |-> calculate_bmi(weight, height),
     bsa             |-> calculate_mosteller_bsa(weight, height),
     models          |-> 0]

\* a models collection document
ModelsDoc == [models |-> <<>>]

\* The JSONs root directory, laid out as the docstring of upload_patients says:
\*   00001/A/  patient_collection.json, model_collection.json
\*   00001/B/  patient_collection.json, model_collection.json
\*   00002/    patient_collection.json, model_collection.json   (series [A, B])
\*   00003/A/  patient_collection.json                          (no model file)
\* dir is <<>> for files lying in the human's directory itself.  Each
\* patient_collection.json carries the internal_info of the place it lies at:
\* the human of its directory and, under a series directory, that series.
JsonDir ==
    { [human |-> 1, dir |-> <<"A">>, patient |-> TRUE, model |-> TRUE,
       series |-> <<"A">>, height |-> Some(170), weight |-> Some(60)],
      [human |-> 1, dir |-> <<"B">>, patient |-> TRUE, model |-> TRUE,
       series |-> <<"B">>, height |-> Some(150), weight |-> None],
      [human |-> 2, dir |-> <<>>, patient |-> TRUE, model |-> TRUE,
       series |-> <<"A", "B">>, height |-> Some(190), weight |-> Some(80)],
      [human |-> 3, dir |-> <<"A">>, patient |-> TRUE, model |-> FALSE,
       series |-> <<"A">>, height |-> None, weight |-> None] }

\* os.path.isdir(os.path.join(jsondir, human_id))
DirExists(human) == \E e \in JsonDir : e.human = human

\* any(os.path.isdir(...) for x in os.listdir(...))
HasSubdirs(human) == \E e \in JsonDir : e.human = human /\ e.dir # <<>>

\* os.path.exists(os.path.join(jsondir, human, dir, name + "_collection.json"))
FileExists(human, dir, name) ==
    \E e \in JsonDir : e.human = human /\ e.dir = dir /\ e[name]

\* patient_dict["internal_info"]["series"] of the patient_collection.json there
FileSeries(human, dir) ==
    (CHOOSE e \in JsonDir : e.human = human /\ e.dir = dir).series

\* json.load of the patient_collection.json at that place
PatientFile(human, dir) ==
    LET e == CHOOSE e \in JsonDir : e.human = human /\ e.dir = dir
    IN  PatientDoc(e.human, e.series, e.height, e.weight)

\* lines 562-583: the patients_list built from internal_id_list
RECURSIVE BuildPatientsList(_)
BuildPatientsList(internal_id_list) ==
    IF internal_id_list = <<>>
    THEN [exc |-> "none", list |-> <<>>]
    ELSE LET i == Head(internal_id_list)
         IN  IF ~DirExists(i)
             THEN [exc |-> "FileNotFoundError", list |-> <<>>]
             ELSE IF HasSubdirs(i)
             THEN [exc |-> "SystemError", list |-> <<>>]
             ELSE IF ~FileExists(i, <<>>, "patient")
             THEN [exc |-> "FileNotFoundError", list |-> <<>>]
             ELSE LET r == BuildPatientsList(Tail(internal_id_list))
                  IN  IF r.exc # "none"
                      THEN r
                      ELSE [exc |-> "none",
                            list |-> <<[human |-> i,
                                        series |-> FileSeries(i, <<>>)]>>
                                     \o r.list]

\* the directory the files of one listed patient lie in
PatientDir(mode, p) == IF mode = "internal_id_list" THEN <<>> ELSE p.series

\* the first loop without its already-present check: only the files of the
\* listed patients are checked
RECURSIVE CheckLoop_FilesOnly(_, _, _)
CheckLoop_FilesOnly(pat, mode, patients_list) ==
    IF patients_list = <<>>
    THEN "none"
    ELSE LET p == Head(patients_list)
         IN  IF \/ ~FileExists(p.human, PatientDir(mode, p), "patient")
                \/ ~FileExists(p.human, PatientDir(mode, p), "model")
             THEN "FileNotFoundError"
             ELSE CheckLoop_FilesOnly(pat, mode, Tail(patients_list))

\* lines 585-624: the first loop, the already-present check and the file check
\* of every listed patient
RECURSIVE CheckLoop(_, _, _)
CheckLoop(pat, mode, patients_list) ==
    IF patients_list = <<>>
    THEN "none"
    ELSE LET p == Head(patients_list)
             q == get_patient_collection(pat, p.human, p.series)
         IN  IF q.exc # "none"
             THEN q.exc
             ELSE IF q.query # <<>>
             THEN "SystemExit"
             ELSE IF \/ ~FileExists(p.human, PatientDir(mode, p), "patient")
                     \/ ~FileExists(p.human, PatientDir(mode, p), "model")
             THEN "FileNotFoundError"
             ELSE CheckLoop(pat, mode, Tail(patients_list))

\* the second loop returning the ids newest first
RECURSIVE InsertLoop_NewestFirst(_, _, _, _, _)
InsertLoop_NewestFirst(pat, mods, mode, patients_list, pat_ids) ==
    IF patients_list = <<>>
    THEN [exc |-> "none", patient |-> pat, models |-> mods, pat_ids |-> pat_ids]
    ELSE LET p == Head(patients_list)
             q == get_patient_collection(pat, p.human, p.series)
         IN  IF q.exc # "none" \/ q.query # <<>>
             THEN [exc |-> "SystemExit", patient |-> pat, models |-> mods,
                   pat_ids |-> <<>>]
             ELSE LET mods1 == Append(mods, ModelsDoc)
                      pat_dict == [PatientFile(p.human, PatientDir(mode, p))
                                     EXCEPT !.models = Len(mods1)]
                      pat1 == Append(pat, pat_dict)
                  IN  InsertLoop_NewestFirst(pat1, mods1, mode,
                                             Tail(patients_list),
                                             <<Len(pat1)>> \o pat_ids)

\* lines 626-678: the second loop, one models document and one patient
\* document inserted per listed patient
RECURSIVE InsertLoop(_, _, _, _, _)
InsertLoop(pat, mods, mode, patients_list, pat_ids) ==
    IF patients_list = <<>>
    THEN [exc |-> "none", patient |-> pat, models |-> mods, pat_ids |-> pat_ids]
    ELSE LET p == Head(patients_list)
             q == get_patient_collection(pat, p.human, p.series)
         IN  IF q.exc # "none" \/ q.query # <<>>
             THEN [exc |-> "SystemExit", patient |-> pat, models |-> mods,
                   pat_ids |-> <<>>]
             ELSE LET mods1 == Append(mods, ModelsDoc)
                      pat_dict == [PatientFile(p.human, PatientDir(mode, p))
                                     EXCEPT !.models = Len(mods1)]
                      pat1 == Append(pat, pat_dict)
                  IN  InsertLoop(pat1, mods1, mode, Tail(patients_list),
                                 Append(pat_ids, Len(pat1)))

Failed(e, pat, mods) ==
    [exc |-> e, patient |-> pat, models |-> mods, pat_ids |-> <<>>]

\* the second loop passing over a patient already present instead of raising
RECURSIVE InsertLoop_SkipPresent(_, _, _, _, _)
InsertLoop_SkipPresent(pat, mods, mode, patients_list, pat_ids) ==
    IF patients_list = <<>>
    THEN [exc |-> "none", patient |-> pat, models |-> mods, pat_ids |-> pat_ids]
    ELSE LET p == Head(patients_list)
             q == get_patient_collection(pat, p.human, p.series)
         IN  IF q.exc # "none" \/ q.query # <<>>
                \/ ~FileExists(p.human, PatientDir(mode, p), "patient")
                \/ ~FileExists(p.human, PatientDir(mode, p), "model")
             THEN InsertLoop_SkipPresent(pat, mods, mode, Tail(patients_list),
                                         pat_ids)
             ELSE LET mods1 == Append(mods, ModelsDoc)
                      pat_dict == [PatientFile(p.human, PatientDir(mode, p))
                                     EXCEPT !.models = Len(mods1)]
                      pat1 == Append(pat, pat_dict)
                  IN  InsertLoop_SkipPresent(pat1, mods1, mode,
                                             Tail(patients_list),
                                             Append(pat_ids, Len(pat1)))

\* upload_patients that uploads what is new and passes over the rest
upload_patients_SkipPresent(pat, mods, mode, list) ==
    IF mode \in {"neither", "both"}
    THEN Failed("SystemError", pat, mods)
    ELSE IF mode = "internal_id_list" /\ list = <<>>
    THEN Failed("TypeError", pat, mods)
    ELSE LET built == IF mode = "internal_id_list"
                      THEN BuildPatientsList(list)
                      ELSE [exc |-> "none", list |-> list]
         IN  IF built.exc # "none"
             THEN Failed(built.exc, pat, mods)
             ELSE InsertLoop_SkipPresent(pat, mods, mode, built.list, <<>>)

\* upload_patients.  mode says which of patients_list and internal_id_list is
\* given ("patients_list", "internal_id_list", "neither", "both"); list is the
\* one given: <<[human, series], ...>> or <<human, ...>>
upload_patients(pat, mods, mode, list) ==
    IF mode \in {"neither", "both"}
    THEN Failed("SystemError", pat, mods)
    ELSE IF mode = "internal_id_list" /\ list = <<>>
    THEN Failed("TypeError", pat, mods)
    ELSE LET built == IF mode = "internal_id_list"
                      THEN BuildPatientsList(list)
                      ELSE [exc |-> "none", list |-> list]
         IN  IF built.exc # "none"
             THEN Failed(built.exc, pat, mods)
             ELSE LET checked == CheckLoop(pat, mode, built.list)
                  IN  IF checked # "none"
                      THEN Failed(checked, pat, mods)
                      ELSE InsertLoop(pat, mods, mode, built.list, <<>>)

\* the lists upload_patients is given by upload_patients_add_to_cohort: an
\* empty internal_id_list is falsy, so the call goes on as
\* upload_patients(jsondir, patients_list=None), which is given neither list
GivenLists(mode, list) ==
    IF mode = "internal_id_list" /\ list = <<>> THEN "neither" ELSE mode

\* upload_patients_add_to_cohort: upload_patients, then add_patients_to_cohort
\* with the ids it returned
upload_patients_add_to_cohort(pat, mods, coh, mode, list) ==
    LET up == upload_patients(pat, mods, GivenLists(mode, list), list)
    IN  IF up.exc # "none"
        THEN [exc |-> up.exc, patient |-> up.patient, models |-> up.models,
              cohort |-> coh, pat_ids |-> <<>>]
        ELSE LET added == add_patients_to_cohort(coh, up.patient, up.pat_ids)
             IN  [exc |-> added.exc, patient |-> up.patient,
                  models |-> up.models, cohort |-> added.cohort,
                  pat_ids |-> up.pat_ids]

-----------------------------------------------------------------------------
(* Model lists, sub-model blobs and landmarks *)

\* one entry of the models list of a models document
ModelEntry(timestamp, sub_models, landmarks) ==
    [timestamp |-> timestamp, sub_models |-> sub_models, landmarks |-> landmarks]

\* get_patient_model_collection: the models document the first record of the
\* lookup references, by _id; [0] of an empty result raises IndexError
get_patient_model_collection(pat, mods, internal_id, series) ==
    LET q == get_patient_collection(pat, internal_id, series)
    IN  IF q.exc # "none"
        THEN [exc |-> q.exc, models_id |-> 0]
        ELSE IF q.query = <<>>
        THEN [exc |-> "IndexError", models_id |-> 0]
        ELSE [exc |-> "none", models_id |-> pat[q.query[1]].models]

\* get_patient_model_list: the models list of that document
get_patient_model_list(pat, mods, internal_id, series) ==
    LET c == get_patient_model_collection(pat, mods, internal_id, series)
    IN  IF c.exc # "none"
        THEN [exc |-> c.exc, value |-> <<>>]
        ELSE [exc |-> "none", value |-> mods[c.models_id].models]

\* update_patient_model_list with $push of the given entries in the place of $set
update_patient_model_list_Push(pat, mods, internal_id, model_list, series) ==
    LET c == get_patient_model_collection(pat, mods, internal_id, series)
    IN  IF c.exc # "none"
        THEN [exc |-> c.exc, models |-> mods]
        ELSE [exc |-> "none",
              models |-> [mods EXCEPT ![c.models_id].models = @ \o model_list]]

\* update_patient_model_list: $set of the models list of the document the
\* first record of the lookup references
update_patient_model_list(pat, mods, internal_id, model_list, series) ==
    LET c == get_patient_model_collection(pat, mods, internal_id, series)
    IN  IF c.exc # "none"
        THEN [exc |-> c.exc, models |-> mods]
        ELSE [exc |-> "none",
              models |-> [mods EXCEPT ![c.models_id].models = model_list]]

\* append_blobs_to_submodel putting the blobs in front of the sub_models
append_blobs_to_submodel_InFront(pat, mods, internal_id, timestamp, blobs, series) ==
    LET c == get_patient_model_collection(pat, mods, internal_id, series)
    IN  IF c.exc # "none"
        THEN [exc |-> c.exc, models |-> mods]
        ELSE LET old == mods[c.models_id].models
                 new == [idx \in 1..Len(old) |->
                            IF old[idx].timestamp = timestamp
                            THEN [old[idx] EXCEPT !.sub_models = blobs \o @]
                            ELSE old[idx]]
             IN  [exc |-> "none",
                  models |-> [mods EXCEPT ![c.models_id].models = new]]

\* append_blobs_to_submodel: sub_models.extend(blobs) on every entry of the
\* timestamp, then $set of the whole list
append_blobs_to_submodel(pat, mods, internal_id, timestamp, blobs, series) ==
    LET c == get_patient_model_collection(pat, mods, internal_id, series)
    IN  IF c.exc # "none"
        THEN [exc |-> c.exc, models |-> mods]
        ELSE LET old == mods[c.models_id].models
                 new == [idx \in 1..Len(old) |->
                            IF old[idx].timestamp = timestamp
                            THEN [old[idx] EXCEPT !.sub_models = @ \o blobs]
                            ELSE old[idx]]
             IN  [exc |-> "none",
                  models |-> [mods EXCEPT ![c.models_id].models = new]]

\* the landmark files there are, with the coordinates fcsv2list reads from them
FcsvFiles == {[path |-> "apex.fcsv", value |-> <<84, -32, 484>>]}

\* fcsv2list: open() of a path that is no file raises FileNotFoundError
fcsv2list(path_fcsv) ==
    IF \E f \in FcsvFiles : f.path = path_fcsv
    THEN [exc |-> "none",
          value |-> (CHOOSE f \in FcsvFiles : f.path = path_fcsv).value]
    ELSE [exc |-> "FileNotFoundError", value |-> <<>>]

\* append_landmarks_to_model: the file is read first, then the record is
\* looked up and the landmarks appended to every entry of the timestamp;
\* description and type_of_spline are stored as given, like name
append_landmarks_to_model(pat, mods, internal_id, timestamp, path_fcsv, name, series) ==
    LET read == fcsv2list(path_fcsv)
    IN  IF read.exc # "none"
        THEN [exc |-> read.exc, models |-> mods]
        ELSE LET landmarks == [name |-> name, value |-> read.value]
                 c == get_patient_model_collection(pat, mods, internal_id, series)
             IN  IF c.exc # "none"
                 THEN [exc |-> c.exc, models |-> mods]
                 ELSE LET old == mods[c.models_id].models
                          new == [idx \in 1..Len(old) |->
                                    IF old[idx].timestamp = timestamp
                                    THEN [old[idx] EXCEPT
                                            !.landmarks = Append(@, landmarks)]
                                    ELSE old[idx]]
                      IN  [exc |-> "none",
                           models |-> [mods EXCEPT ![c.models_id].models = new]]

-----------------------------------------------------------------------------
(* Inputs of the calls *)

\* internal ids asked for; no document and no directory belongs to the last
InternalIds == {1, 2, 3}

SeriesNames == {"A", "B"}

\* the series argument of a lookup: None, a string or a pair
SeriesArgs ==
    {None} \cup {<<a>> : a \in SeriesNames}
           \cup {<<a, b>> : a \in SeriesNames, b \in SeriesNames}

\* the entries {human: series} of a patients_list
ListEntries ==
    { [human |-> 1, series |-> <<"A">>], [human |-> 1, series |-> <<"B">>],
      [human |-> 2, series |-> <<"A">>], [human |-> 3, series |-> <<"A">>] }

\* the entries of an internal_id_list; 4 has no directory
ListedIds == {1, 2, 4}

UploadCalls ==
    [mode : {"patients_list"}, list : SeqsOf(ListEntries, 0, MaxBatch)]
    \cup [mode : {"internal_id_list"}, list : SeqsOf(ListedIds, 0, MaxBatch)]
    \cup [mode : {"neither", "both"}, list : {<<>>}]

NoKwargs ==
    [age |-> None, gender |-> None, height |-> None, weight |-> None,
     loc |-> None]

\* the keyword arguments of update_human_demographics: valid and invalid values
\* of every field
Kwargs ==
    [age    : {None, Some(0), Some(30), Some(121)},
     gender : {None, Some("male"), Some("other")},
     height : {None, Some(175)},
     weight : {None, Some(65)},
     loc    : {None, Some("europe"), Some("mars")}]

\* the number of keyword arguments a call supplies
Supplied(kw) == Cardinality({f \in DOMAIN kw : kw[f] # None})

\* a call supplies at most this many keyword arguments
MaxFields == 2

\* the keyword arguments of the calls made
CallKwargs == {kw \in Kwargs : Supplied(kw) <= MaxFields}

\* the humans updated where human 2 is the one to be left alone
UpdatedIds == {1, 3}

\* calls that supply a height and nothing else
HeightKwargs == {[NoKwargs EXCEPT !.height = Some(175)]}

\* the humans of the model-list calls
ModelInternalIds == {1, 2}

\* the series argument of a model-list call: None, a string or a pair
ModelSeriesArgs == {None, <<"A">>, <<"A", "B">>, <<"B", "A">>}

\* the timestamps of stored entries, and one that no entry has
Timestamps == {1, 2}

TimestampArgs == Timestamps \cup {3}

\* the blobs lists handed to append_blobs_to_submodel
BlobLists == {<<"x">>, <<"y", "x">>}

\* the models lists handed to update_patient_model_list: empty, two entries
\* of different timestamps, two entries of one timestamp
ModelLists ==
    { <<>>,
      <<ModelEntry(1, <<"x">>, <<>>), ModelEntry(2, <<>>, <<>>)>>,
      <<ModelEntry(2, <<>>, <<>>), ModelEntry(2, <<>>, <<>>)>> }

\* the path of a landmark file, and of no file
FcsvPaths == {"apex.fcsv", "missing.fcsv"}

\* the models collection never holds more blobs than this in all its entries
MaxBlobs == 2
\* nor more landmarks than this
MaxLandmarks == 1

\* the entries of all models documents
RECURSIVE EntriesOf(_)
EntriesOf(mods) ==
    IF mods = <<>> THEN <<>> ELSE Head(mods).models \o EntriesOf(Tail(mods))

RECURSIVE CountBlobs(_)
CountBlobs(entries) ==
    IF entries = <<>>
    THEN 0
    ELSE Len(Head(entries).sub_models) + CountBlobs(Tail(entries))

RECURSIVE CountLandmarks(_)
CountLandmarks(entries) ==
    IF entries = <<>>
    THEN 0
    ELSE Len(Head(entries).landmarks) + CountLandmarks(Tail(entries))

\* the models collection is within the bounds of the model
WithinBounds(mods) ==
    /\ CountBlobs(EntriesOf(mods)) <= MaxBlobs
    /\ CountLandmarks(EntriesOf(mods)) <= MaxLandmarks

-----------------------------------------------------------------------------
(* Operations *)

GetPatientCollection ==
    \E internal_id \in InternalIds, series \in SeriesArgs :
        LET r == get_patient_collection(patient, internal_id, series)
        IN  /\ ret' = [op |-> "get_patient_collection",
                       internal_id |-> internal_id, series |-> series,
                       exc |-> r.exc, query |-> r.query, tried |-> r.tried]
            /\ UNCHANGED <<patient, models, cohort>>

UploadPatients ==
    \E c \in UploadCalls :
        /\ Len(patient) + Len(c.list) <= MaxPatients
        /\ LET r == upload_patients(patient, models, c.mode, c.list)
           IN  /\ patient' = r.patient
               /\ models' = r.models
               /\ ret' = [op |-> "upload_patients", mode |-> c.mode,
                          list |-> c.list, exc |-> r.exc, pat_ids |-> r.pat_ids]
        /\ UNCHANGED cohort

UploadPatientsAddToCohort ==
    \E c \in UploadCalls :
        /\ Len(patient) + Len(c.list) <= MaxPatients
        /\ LET r == upload_patients_add_to_cohort(patient, models, cohort,
                                                  c.mode, c.list)
           IN  /\ patient' = r.patient
               /\ models' = r.models
               /\ cohort' = r.cohort
               /\ ret' = [op |-> "upload_patients_add_to_cohort",
                          mode |-> c.mode, list |-> c.list, exc |-> r.exc,
                          pat_ids |-> r.pat_ids]

\* the id of no document: ObjectIds are never reused, so no later insert gets it
NoDocument == 0

\* patient_ids holds ids of stored patients, possibly repeated, and possibly the
\* id of no document; ret keeps how many ids were given
AddPatientsToCohort ==
    \E patient_ids \in SeqsOf({NoDocument} \cup (1..Len(patient)), 0, MaxBatch) :
        LET r == add_patients_to_cohort(cohort, patient, patient_ids)
        IN  /\ cohort' = r.cohort
            /\ ret' = [op |-> "add_patients_to_cohort",
                       given |-> Len(patient_ids), exc |-> r.exc,
                       value |-> r.value]
            /\ UNCHANGED <<patient, models>>

SetMaxMinPatientDimensionsInCohort ==
    LET r == set_max_min_patient_dimensions_in_cohort(cohort, patient)
    IN  /\ cohort' = r.cohort
        /\ ret' = [op |-> "set_max_min_patient_dimensions_in_cohort",
                   exc |-> r.exc]
        /\ UNCHANGED <<patient, models>>

UpdateHumanDemographics(Ids, K) ==
    \E internal_id \in Ids, kw \in K :
        /\ LET r == update_human_demographics(patient, internal_id, kw)
           IN  /\ patient' = r.patient
               /\ ret' = [op |-> "update_human_demographics",
                          internal_id |-> internal_id, kw |-> kw,
                          exc |-> r.exc]
        /\ UNCHANGED <<models, cohort>>

GetPatientModelList ==
    \E internal_id \in ModelInternalIds, series \in ModelSeriesArgs :
        LET r == get_patient_model_list(patient, models, internal_id, series)
        IN  /\ ret' = [op |-> "get_patient_model_list",
                       internal_id |-> internal_id, series |-> series,
                       exc |-> r.exc, value |-> r.value]
            /\ UNCHANGED <<patient, models, cohort>>

UpdatePatientModelList ==
    \E internal_id \in ModelInternalIds, series \in ModelSeriesArgs,
       model_list \in ModelLists :
        LET r == update_patient_model_list(patient, models, internal_id,
                                           model_list, series)
        IN  /\ WithinBounds(r.models)
            /\ models' = r.models
            /\ ret' = [op |-> "update_patient_model_list",
                       exc |-> r.exc]
            /\ UNCHANGED <<patient, cohort>>

AppendBlobsToSubmodel ==
    \E internal_id \in ModelInternalIds, series \in ModelSeriesArgs,
       timestamp \in TimestampArgs, blobs \in BlobLists :
        LET r == append_blobs_to_submodel(patient, models, internal_id,
                                          timestamp, blobs, series)
        IN  /\ WithinBounds(r.models)
            /\ models' = r.models
            /\ ret' = [op |-> "append_blobs_to_submodel",
                       exc |-> r.exc]
            /\ UNCHANGED <<patient, cohort>>

AppendLandmarksToModel ==
    \E internal_id \in ModelInternalIds, series \in ModelSeriesArgs,
       timestamp \in TimestampArgs, path_fcsv \in FcsvPaths :
        LET r == append_landmarks_to_model(patient, models, internal_id,
                                           timestamp, path_fcsv, "LV Apex",
                                           series)
        IN  /\ WithinBounds(r.models)
            /\ models' = r.models
            /\ ret' = [op |-> "append_landmarks_to_model",
                       exc |-> r.exc]
            /\ UNCHANGED <<patient, cohort>>

-----------------------------------------------------------------------------
(* The database DBOps is constructed on *)

\* height and weight of the documents the database starts with
DimsList ==
    << [height |-> Some(160), weight |-> Some(50)],
       [height |-> Some(170), weight |-> None],
       [height |-> Some(180), weight |-> Some(70)],
       [height |-> None,      weight |-> Some(60)] >>

Dims == {DimsList[k] : k \in 1..Len(DimsList)}

\* identities of the documents the database starts with
Identities ==
    { [internal_id |-> 1, series |-> <<"A">>],
      [internal_id |-> 1, series |-> <<"B">>],
      [internal_id |-> 2, series |-> <<"A", "B">>],
      [internal_id |-> 2, series |-> <<"B", "A">>] }

\* the cohort document starts with no member and null bounds
EmptyCohort ==
    [patient_ids |-> <<>>, number_patients |-> 0,
     height |-> NullBounds, weight |-> NullBounds]

\* patient document k references models document k
WithModels(docs) == [k \in 1..Len(docs) |-> [docs[k] EXCEPT !.models = k]]

InitRest ==
    /\ models = [k \in 1..Len(patient) |-> ModelsDoc]
    /\ cohort = EmptyCohort
    /\ ret = [op |-> "init"]

\* any identities, also the same one twice: nothing in the store forbids it
InitLookup ==
    /\ \E ids \in SeqsOf(Identities, 0, MaxInitPatients) :
          patient = WithModels([k \in 1..Len(ids) |->
                       PatientDoc(ids[k].internal_id, ids[k].series,
                                  Some(160), Some(50))])
    /\ InitRest

\* at most one patient record per (internal_id, series), a pair unordered
SameSeries(s, t) == s = t \/ (IsList(s) /\ IsList(t) /\ s = <<t[2], t[1]>>)

Unique(pat) ==
    \A i, j \in 1..Len(pat) :
        (pat[i].internal_id = pat[j].internal_id
            /\ SameSeries(pat[i].series, pat[j].series)) => i = j

InitUnique == InitLookup /\ Unique(patient)

\* document k is human k: any heights and weights, some of them missing.  The
\* documents are told apart by nothing but their _id, so the databases are
\* listed up to the order of their documents: heights and weights in the order
\* of DimsList
InitDims ==
    /\ \E ks \in SeqsOf(1..Len(DimsList), 0, MaxInitPatients) :
          /\ \A i \in 1..(Len(ks) - 1) : ks[i] <= ks[i + 1]
          /\ patient = WithModels([k \in 1..Len(ks) |->
                          PatientDoc(k, <<"A">>, DimsList[ks[k]].height,
                                     DimsList[ks[k]].weight)])
    /\ InitRest

\* the documents with a height stored, with and without a weight
StoredHeights == {d \in Dims : d.height \in {Some(160), Some(170)}}

\* two documents, of one human or of two, the second with a pair as series;
\* a weight is stored in both, in one or in none
InitDemographics ==
    /\ \E d1 \in StoredHeights, d2 \in StoredHeights, id2 \in {1, 2} :
          patient = WithModels(
                      <<PatientDoc(1, <<"A">>, d1.height, d1.weight),
                        PatientDoc(id2, <<"A", "B">>, d2.height, d2.weight)>>)
    /\ InitRest

\* the models lists the two models documents start with
StoredModels ==
    << <<ModelEntry(1, <<>>, <<>>), ModelEntry(2, <<>>, <<>>)>>,
       <<ModelEntry(1, <<>>, <<>>)>> >>

\* the two patient records: of one human with two series, of two humans, the
\* same identity twice, the same pair in both orders
ModelDatabases ==
    { <<[internal_id |-> 1, series |-> <<"A">>],
        [internal_id |-> 1, series |-> <<"B">>]>>,
      <<[internal_id |-> 1, series |-> <<"A">>],
        [internal_id |-> 2, series |-> <<"A", "B">>]>>,
      <<[internal_id |-> 2, series |-> <<"A", "B">>],
        [internal_id |-> 2, series |-> <<"A", "B">>]>>,
      <<[internal_id |-> 2, series |-> <<"A", "B">>],
        [internal_id |-> 2, series |-> <<"B", "A">>]>> }

\* two patient records, each with a models document of its own
InitModels ==
    /\ \E ids \in ModelDatabases :
          patient = WithModels([k \in 1..2 |->
                       PatientDoc(ids[k].internal_id, ids[k].series,
                                  Some(160), Some(50))])
    /\ models = [k \in 1..2 |-> [models |-> StoredModels[k]]]
    /\ cohort = EmptyCohort
    /\ ret = [op |-> "init"]

Init == InitLookup \/ InitDims \/ InitDemographics \/ InitModels

-----------------------------------------------------------------------------
(* Specifications *)

NextLookup ==
    \/ GetPatientCollection
    \/ UploadPatients
    \/ UploadPatientsAddToCohort

NextAggregate ==
    \/ AddPatientsToCohort
    \/ SetMaxMinPatientDimensionsInCohort

NextCohort ==
    \/ AddPatientsToCohort
    \/ SetMaxMinPatientDimensionsInCohort
    \/ UpdateHumanDemographics(InternalIds, HeightKwargs)

NextDemographics == UpdateHumanDemographics(UpdatedIds, CallKwargs)

NextModels ==
    \/ GetPatientModelList
    \/ UpdatePatientModelList
    \/ AppendBlobsToSubmodel
    \/ AppendLandmarksToModel

Next ==
    \/ GetPatientCollection
    \/ UploadPatients
    \/ UploadPatientsAddToCohort
    \/ AddPatientsToCohort
    \/ SetMaxMinPatientDimensionsInCohort
    \/ UpdateHumanDemographics(InternalIds, CallKwargs)
    \/ GetPatientModelList
    \/ UpdatePatientModelList
    \/ AppendBlobsToSubmodel
    \/ AppendLandmarksToModel

\* every operation, from every database above
Spec == Init /\ [][Next]_vars

\* lookups and uploads: the operations that read or write internal_info
SpecLookup == InitLookup /\ [][NextLookup]_vars

\* the same, from a database that holds every identity at most once
SpecUnique == InitUnique /\ [][NextLookup]_vars

\* the cohort built by add_patients_to_cohort alone, recomputed at any time
SpecAggregate == InitDims /\ [][NextAggregate]_vars

\* the two calls that fold patients into the bounds, in any sequence
SpecFold == InitDims /\ [][NextAggregate]_vars

\* add_patients_to_cohort alone, called any number of times
SpecMembers == InitDims /\ [][AddPatientsToCohort]_vars

\* the cohort, with heights and weights changing under it
SpecCohort == InitDims /\ [][NextCohort]_vars

\* the model lists of two patient records, read, replaced and appended to
SpecModels == InitModels /\ [][NextModels]_vars

\* update_human_demographics on documents of one human or two
SpecDemographics == InitDemographics /\ [][NextDemographics]_vars

-----------------------------------------------------------------------------
(* Patient identity resolution: claims *)

SameOutcome(r1, r2) == r1.exc = r2.exc /\ r1.query = r2.query

\* C1: in every reachable database state, for every internal id and every pair
\* [a, b], get_patient_collection(id, [a, b]) and get_patient_collection(id,
\* [b, a]) give the same outcome: the same record, both nothing, or both the
\* fatal error.
C1_PairOrderSameOutcome ==
    \A internal_id \in InternalIds, a \in SeriesNames, b \in SeriesNames :
        SameOutcome(get_patient_collection(patient, internal_id, <<a, b>>),
                    get_patient_collection(patient, internal_id, <<b, a>>))

\* the documents one lookup query matches: by internal id alone when the series
\* is absent, else by internal id and the series exactly as given
Matches(pat, internal_id, series) ==
    {i \in 1..Len(pat) :
        /\ pat[i].internal_id = internal_id
        /\ (series # None => pat[i].series = series)}

\* C5: whenever the query of a lookup (by id alone, by id and a string, by id
\* and the pair in the order given) matches more than one patient record, the
\* call raises the fatal error, returns no record, and has queried nothing but
\* the series as given: the reversed pair is not tried.
C5_AmbiguousLookupIsFatal ==
    \A internal_id \in InternalIds, series \in SeriesArgs :
        Cardinality(Matches(patient, internal_id, series)) > 1 =>
            LET r == get_patient_collection(patient, internal_id, series)
            IN  /\ r.exc = "SystemExit"
                /\ r.query = <<>>
                /\ r.tried = <<series>>

\* a lookup by a pair has just met two records holding the pair in that order
C5_Witness ==
    /\ ret.op = "get_patient_collection"
    /\ IsList(ret.series)
    /\ Cardinality(Matches(patient, ret.internal_id, ret.series)) > 1
    /\ ret.exc = "SystemExit"
    /\ ret.tried = <<ret.series>>

-----------------------------------------------------------------------------
(* Batch ingestion: claims *)

\* the identity resolves to a record through get_patient_collection
Resolves(pat, human, series) ==
    LET q == get_patient_collection(pat, human, series)
    IN  q.exc = "none" /\ q.query # <<>>

\* the patients a call lists, each with its series: the entries of
\* patients_list, or the humans of internal_id_list with the series their
\* patient_collection.json gives
ListedPatients(c) ==
    IF c.mode = "patients_list"
    THEN {c.list[k] : k \in 1..Len(c.list)}
    ELSE IF c.mode = "internal_id_list"
    THEN {[human |-> c.list[k], series |-> FileSeries(c.list[k], <<>>)] :
            k \in {n \in 1..Len(c.list) : FileExists(c.list[n], <<>>, "patient")}}
    ELSE {}

FatalErrors == {"SystemExit", "SystemError", "FileNotFoundError"}

\* C4: in either input mode, when a listed patient already resolves to a record
\* through get_patient_collection, upload_patients ends in a fatal error and
\* returns no ids.
C4_DuplicateUploadRejected ==
    \A c \in UploadCalls :
        (\E p \in ListedPatients(c) : Resolves(patient, p.human, p.series)) =>
            LET r == upload_patients(patient, models, c.mode, c.list)
            IN  r.exc \in FatalErrors /\ r.pat_ids = <<>>

\* human 2, stored with the pair as [B, A], has just been refused when listed
\* by internal id with a file that gives the pair as [A, B]
C4_Witness ==
    /\ ret.op = "upload_patients"
    /\ ret.mode = "internal_id_list"
    /\ ret.list = <<2>>
    /\ ret.exc = "SystemExit"
    /\ \E i \in 1..Len(patient) :
          patient[i].internal_id = 2 /\ patient[i].series = <<"B", "A">>
    /\ \A i \in 1..Len(patient) : patient[i].series # <<"A", "B">>

\* C6: from a database with at most one patient record per (internal_id,
\* series), a pair counted as unordered, every sequence of upload_patients and
\* upload_patients_add_to_cohort calls leaves at most one record per
\* (internal_id, series).
C6_UploadsKeepIdentitiesUnique == Unique(patient)

\* an upload has just inserted two patients next to a record that was there
C6_Witness ==
    /\ ret.op \in {"upload_patients", "upload_patients_add_to_cohort"}
    /\ ret.exc = "none"
    /\ Len(ret.pat_ids) = 2
    /\ Len(patient) > 2

-----------------------------------------------------------------------------
(* Cohort dimension aggregator: claims *)

Bounds(coh) == <<coh.height, coh.weight>>

\* the cohort after add_patients_to_cohort(cohort_id, patient_ids)
After(coh, patient_ids) == add_patients_to_cohort(coh, patient, patient_ids).cohort

\* the ids one call may be handed
GivenIds == {NoDocument} \cup (1..Len(patient))

\* the lists over S of length up to n with their entries in ascending order:
\* every list is a rearrangement of one of them
Ascending(S, n) ==
    {s \in SeqsOf(S, 0, n) : \A i \in 1..(Len(s) - 1) : s[i] <= s[i + 1]}

\* the rearrangements of a list
Rearrangements(s) ==
    {[k \in 1..Len(s) |-> s[f[k]]] :
        f \in {g \in [1..Len(s) -> 1..Len(s)] :
                 \A i, j \in 1..Len(s) : g[i] = g[j] => i = j}}

\* C2: from the same cohort state, adding patient A and then patient B leaves
\* the same height and weight min/max as adding B and then A, and so does any
\* rearrangement of the ids inside one patient_ids list: every rearrangement
\* of a list leaves the bounds its ascending arrangement leaves, hence any two
\* arrangements leave the same.
C2_AggregationOrderIndependent ==
    /\ \A a \in GivenIds, b \in GivenIds :
          Bounds(After(After(cohort, <<a>>), <<b>>))
            = Bounds(After(After(cohort, <<b>>), <<a>>))
    /\ \A ids \in Ascending(GivenIds, MaxBatch) :
          LET bounds == Bounds(After(cohort, ids))
          IN  \A other \in Rearrangements(ids) :
                  Bounds(After(cohort, other)) = bounds

\* one call has just added two patients of different heights and weights
C2_Witness ==
    /\ ret.op = "add_patients_to_cohort"
    /\ ret.exc = "none"
    /\ ret.given = 2
    /\ cohort.height.min # None /\ cohort.height.min # cohort.height.max
    /\ cohort.weight.min # None /\ cohort.weight.min # cohort.weight.max

\* C3: after any sequence of add_patients_to_cohort calls, a call of
\* set_max_min_patient_dimensions_in_cohort leaves the height and weight
\* min/max as the incremental updates had left them.
C3_RecomputeKeepsIncrementalBounds ==
    Bounds(set_max_min_patient_dimensions_in_cohort(cohort, patient).cohort)
        = Bounds(cohort)

\* the recompute has just run over two members of different heights
C3_Witness ==
    /\ ret.op = "set_max_min_patient_dimensions_in_cohort"
    /\ ret.exc = "none"
    /\ Len(cohort.patient_ids) = 2
    /\ cohort.height.min # None /\ cohort.height.min # cohort.height.max

\* the values of one dimension the members of the cohort have stored
MemberValues(coh, pat, dim) ==
    {pat[coh.patient_ids[k]][dim][1] :
        k \in {n \in 1..Len(coh.patient_ids) : pat[coh.patient_ids[n]][dim] # None}}

Minimum(S) == CHOOSE x \in S : \A y \in S : x <= y

Maximum(S) == CHOOSE x \in S : \A y \in S : x >= y

\* min and max of the members' values, both null when no member has one
FromScratch(coh, pat, dim) ==
    IF MemberValues(coh, pat, dim) = {}
    THEN [min |-> None, max |-> None]
    ELSE [min |-> Some(Minimum(MemberValues(coh, pat, dim))),
          max |-> Some(Maximum(MemberValues(coh, pat, dim)))]

\* C7: after set_max_min_patient_dimensions_in_cohort, the height and the
\* weight min/max are the minimum and maximum of the values the listed members
\* have stored (null when none has one), whatever bounds were stored before.
C7_RecomputeFromScratch ==
    (ret.op = "set_max_min_patient_dimensions_in_cohort" /\ ret.exc = "none") =>
        /\ cohort.height = FromScratch(cohort, patient, "height")
        /\ cohort.weight = FromScratch(cohort, patient, "weight")

-----------------------------------------------------------------------------
(* Demographic update: claims *)

\* the documents of one human
DocsOf(pat, internal_id) == {i \in 1..Len(pat) : pat[i].internal_id = internal_id}

\* bmi and bsa of a document are those of its stored weight and height
DerivedFromStored(doc) ==
    /\ doc.bmi = calculate_bmi(doc.weight, doc.height)
    /\ doc.bsa = calculate_mosteller_bsa(doc.weight, doc.height)

\* C8: after update_human_demographics supplies a height (resp. weight), every
\* record of that internal id whose weight (resp. height) is stored has bmi and
\* bsa computed from that record's stored weight and height, and a record
\* whose companion field is missing keeps its bmi and bsa.
C8_DerivedMetricsPerRecord ==
    \A internal_id \in UpdatedIds, kw \in Kwargs :
        LET r == update_human_demographics(patient, internal_id, kw)
        IN  r.exc = "none" =>
              \A i \in DocsOf(patient, internal_id) :
                /\ kw.height # None =>
                      IF r.patient[i].weight # None
                      THEN DerivedFromStored(r.patient[i])
                      ELSE /\ r.patient[i].bmi = patient[i].bmi
                           /\ r.patient[i].bsa = patient[i].bsa
                /\ kw.weight # None =>
                      IF r.patient[i].height # None
                      THEN DerivedFromStored(r.patient[i])
                      ELSE /\ r.patient[i].bmi = patient[i].bmi
                           /\ r.patient[i].bsa = patient[i].bsa

\* a call supplies a value outside the domain of age, gender or origin location
OutsideDomain(kw) ==
    \/ kw.age # None /\ kw.age[1] \notin 0..120
    \/ kw.gender # None /\ kw.gender[1] \notin {"male", "female"}
    \/ kw.loc # None /\ kw.loc[1] \notin {"europe", "asia_pacific",
                                          "north_south_america",
                                          "middle_east_africa"}

\* C9: every call of update_human_demographics that supplies an age outside
\* 0..120, a gender other than male or female, or an origin location outside
\* the four accepted values raises the validation error, whatever else it
\* supplies.
C9_InvalidFieldRaisesValidationError ==
    \A internal_id \in UpdatedIds, kw \in Kwargs :
        OutsideDomain(kw) =>
            update_human_demographics(patient, internal_id, kw).exc = "ValueError"

\* the demographic fields and the keyword argument that supplies each
DemographicFields ==
    { <<"age", "age">>, <<"gender", "gender">>, <<"height", "height">>,
      <<"weight", "weight">>, <<"origin_location", "loc">> }

\* C10: a successful update_human_demographics(internal_id, ...) writes every
\* supplied field to every patient record of that internal id, whatever its
\* series, and leaves the records of every other internal id as they were (the
\* call reads and writes the patient collection only).
C10_SuppliedFieldsWritten ==
    \A internal_id \in UpdatedIds, kw \in Kwargs :
        LET r == update_human_demographics(patient, internal_id, kw)
        IN  r.exc = "none" =>
              /\ Len(r.patient) = Len(patient)
              /\ \A i \in 1..Len(patient) :
                    IF patient[i].internal_id = internal_id
                    THEN \A f \in DemographicFields :
                            kw[f[2]] # None => r.patient[i][f[1]] = kw[f[2]]
                    ELSE r.patient[i] = patient[i]

-----------------------------------------------------------------------------
(* Cohort membership: claims *)

\* the entries of a list
Range(s) == {s[k] : k \in 1..Len(s)}

NoRepeats(s) == \A i, j \in 1..Len(s) : s[i] = s[j] => i = j

\* C11: after every add_patients_to_cohort(cohort_id, patient_ids), in any
\* sequence of such calls that may repeat ids, every given id is in the cohort's
\* patient_ids, patient_ids holds no id twice, and number_patients is the number
\* of entries of patient_ids.
C11_MembersAreASet ==
    \A ids \in SeqsOf(GivenIds, 0, MaxBatch) :
        LET c == After(cohort, ids)
        IN  /\ Range(ids) \subseteq Range(c.patient_ids)
            /\ NoRepeats(c.patient_ids)
            /\ c.number_patients = Len(c.patient_ids)

\* a call that gave two ids has just ended with one member in the cohort: the
\* same id twice, kept once
C11_Witness ==
    /\ ret.op = "add_patients_to_cohort"
    /\ ret.given = 2
    /\ ret.exc = "none"
    /\ Len(cohort.patient_ids) = 1
    /\ cohort.number_patients = 1

-----------------------------------------------------------------------------
(* Model lists: claims *)

\* every models document but the one of that _id is as it was
OthersUnchanged(before, after, models_id) ==
    /\ Len(after) = Len(before)
    /\ \A k \in 1..Len(before) : k # models_id => after[k] = before[k]

\* C12: append_blobs_to_submodel(id, timestamp, blobs, series) appends the
\* blobs, in the order given, to the end of sub_models of the model entry of
\* that timestamp, and leaves the entries of every other timestamp, the order
\* of the entries, the earlier sub_models of the matching entry and every other
\* models document as they were.
C12_BlobsAppendedToMatchingEntry ==
    \A internal_id \in ModelInternalIds, series \in ModelSeriesArgs,
       timestamp \in TimestampArgs, blobs \in BlobLists :
        LET r == append_blobs_to_submodel(patient, models, internal_id,
                                          timestamp, blobs, series)
            c == get_patient_model_collection(patient, models, internal_id,
                                              series)
            old == models[c.models_id].models
            new == r.models[c.models_id].models
        IN  r.exc = "none" =>
              /\ OthersUnchanged(models, r.models, c.models_id)
              /\ Len(new) = Len(old)
              /\ \A idx \in 1..Len(old) :
                    IF old[idx].timestamp = timestamp
                    THEN new[idx] = [old[idx] EXCEPT
                                       !.sub_models = old[idx].sub_models \o blobs]
                    ELSE new[idx] = old[idx]

\* blobs have just been appended behind the sub_models the entry of timestamp
\* 1 had, next to an entry of timestamp 2 that has none
C12_Witness ==
    /\ ret.op = "append_blobs_to_submodel"
    /\ ret.exc = "none"
    /\ \E k \in 1..Len(models) :
          models[k].models = <<ModelEntry(1, <<"x", "x">>, <<>>),
                               ModelEntry(2, <<>>, <<>>)>>

\* C13: after update_patient_model_list(id, models, series) succeeds,
\* get_patient_model_list(id, series) returns exactly the list given, and the
\* models documents of all other patients are as they were.
C13_ModelListRoundTrip ==
    \A internal_id \in ModelInternalIds, series \in ModelSeriesArgs,
       model_list \in ModelLists :
        LET r == update_patient_model_list(patient, models, internal_id,
                                           model_list, series)
            c == get_patient_model_collection(patient, models, internal_id,
                                              series)
            got == get_patient_model_list(patient, r.models, internal_id, series)
        IN  r.exc = "none" =>
              /\ got.exc = "none"
              /\ got.value = model_list
              /\ OthersUnchanged(models, r.models, c.models_id)

\* the models list of the second record has just been replaced by two entries
\* of one timestamp, the first record's list being the one it started with
C13_Witness ==
    /\ ret.op = "update_patient_model_list"
    /\ ret.exc = "none"
    /\ models[1].models = StoredModels[1]
    /\ models[2].models = <<ModelEntry(2, <<>>, <<>>), ModelEntry(2, <<>>, <<>>)>>

\* the lookup of the identity meets more than one patient record: in its query
\* as given, or, the pair as given matching none, in the query of the pair
\* reversed
Ambiguous(pat, internal_id, series) ==
    \/ Cardinality(Matches(pat, internal_id, series)) > 1
    \/ /\ IsList(series)
       /\ Matches(pat, internal_id, series) = {}
       /\ Cardinality(Matches(pat, internal_id, <<series[2], series[1]>>)) > 1

\* the outcome of each model-list call that does not read a landmark file
ModelCallOutcomes(internal_id, series) ==
    {[exc |-> get_patient_model_list(patient, models, internal_id, series).exc,
      models |-> models]}
    \cup {update_patient_model_list(patient, models, internal_id, model_list,
                                     series) : model_list \in ModelLists}
    \cup {append_blobs_to_submodel(patient, models, internal_id, timestamp,
                                    blobs, series) :
              timestamp \in TimestampArgs, blobs \in BlobLists}

\* the outcome of append_landmarks_to_model for the landmark files of Paths
LandmarkCallOutcomes(internal_id, series, Paths) ==
    {append_landmarks_to_model(patient, models, internal_id, timestamp,
                               path_fcsv, "LV Apex", series) :
        timestamp \in TimestampArgs, path_fcsv \in Paths}

\* C14: when the identity given to update_patient_model_list,
\* append_blobs_to_submodel, append_landmarks_to_model or
\* get_patient_model_list resolves to more than one patient record, the call
\* ends in the fatal error of more than one patient entry and no models
\* document has been modified (none of these calls writes a patient record or
\* a cohort).
C14_AmbiguousIdentityIsFatal ==
    \A internal_id \in ModelInternalIds, series \in ModelSeriesArgs :
        Ambiguous(patient, internal_id, series) =>
            \A r \in ModelCallOutcomes(internal_id, series)
                      \cup LandmarkCallOutcomes(internal_id, series, FcsvPaths) :
                r.exc = "SystemExit" /\ r.models = models

\* the landmark files that can be read
ReadablePaths == {p \in FcsvPaths : fcsv2list(p).exc = "none"}

\* C14, amended: the same, where append_landmarks_to_model is given a landmark
\* file that can be read; given one that cannot, it ends in the error of the
\* missing file, before the lookup, and no models document has been modified.
C14_AmbiguousIdentityIsFatalOnceFileIsRead ==
    \A internal_id \in ModelInternalIds, series \in ModelSeriesArgs :
        Ambiguous(patient, internal_id, series) =>
            /\ \A r \in ModelCallOutcomes(internal_id, series)
                         \cup LandmarkCallOutcomes(internal_id, series,
                                                   ReadablePaths) :
                  r.exc = "SystemExit" /\ r.models = models
            /\ \A r \in LandmarkCallOutcomes(internal_id, series,
                                              FcsvPaths \ ReadablePaths) :
                  r.exc = "FileNotFoundError" /\ r.models = models

\* append_landmarks_to_model has just ended in the fatal error, on two records
\* of one human looked up without a series, after the model list of the first
\* had been changed
C14_Witness ==
    /\ ret.op = "append_landmarks_to_model"
    /\ ret.exc = "SystemExit"
    /\ patient[1].internal_id = patient[2].internal_id
    /\ patient[1].series # patient[2].series
    /\ models[1].models # StoredModels[1]

-----------------------------------------------------------------------------
(* Batch ingestion: what a successful upload leaves *)

\* the patients a call lists, in the order of its list, each with its series
ListedInOrder(c) ==
    IF c.mode = "patients_list"
    THEN c.list
    ELSE [k \in 1..Len(c.list) |->
            [human |-> c.list[k], series |-> FileSeries(c.list[k], <<>>)]]

\* C15: a successful upload_patients returns one patient document id per
\* listed patient, in the order of the input list; the k-th id is that of a
\* record inserted by the call which carries the identity of the k-th listed
\* patient and references the k-th models document the call inserted; and
\* afterwards get_patient_collection and get_patient_model_collection of
\* every listed patient resolve to that record and that models document.
C15_UploadReturnsIdsInOrder ==
    \A c \in UploadCalls :
        LET r == upload_patients(patient, models, c.mode, c.list)
            listed == ListedInOrder(c)
        IN  r.exc = "none" =>
              /\ Len(r.pat_ids) = Len(listed)
              /\ Len(r.patient) = Len(patient) + Len(listed)
              /\ Len(r.models) = Len(models) + Len(listed)
              /\ \A k \in 1..Len(listed) :
                    LET q == get_patient_collection(r.patient, listed[k].human,
                                                    listed[k].series)
                        m == get_patient_model_collection(r.patient, r.models,
                                                          listed[k].human,
                                                          listed[k].series)
                    IN  /\ r.pat_ids[k] = Len(patient) + k
                        /\ r.patient[r.pat_ids[k]].internal_id = listed[k].human
                        /\ r.patient[r.pat_ids[k]].series = listed[k].series
                        /\ r.patient[r.pat_ids[k]].models = Len(models) + k
                        /\ q.exc = "none" /\ q.query = <<r.pat_ids[k]>>
                        /\ m.exc = "none" /\ m.models_id = Len(models) + k

\* series B and then series A of human 1 have just been uploaded next to a
\* record that was there
C15_Witness ==
    /\ ret.op = "upload_patients"
    /\ ret.mode = "patients_list"
    /\ ret.exc = "none"
    /\ ret.list = <<[human |-> 1, series |-> <<"B">>],
                    [human |-> 1, series |-> <<"A">>]>>
    /\ Len(patient) = 3
    /\ ret.pat_ids = <<2, 3>>
    /\ patient[2].series = <<"B">> /\ patient[2].models = 2
    /\ patient[3].series = <<"A">> /\ patient[3].models = 3

\* the value is missing or lies within the bounds
Encloses(b, v) ==
    v # None => /\ b.min # None /\ b.max # None
                /\ b.min[1] <= v[1] /\ v[1] <= b.max[1]

\* C16: after a successful upload_patients_add_to_cohort the ids of the
\* uploaded patient records are the last entries of the cohort's patient_ids,
\* in upload order, number_patients has grown by the number of uploaded
\* patients, and the cohort's height and weight min/max enclose the values the
\* uploaded patients have; when the upload step fails the cohort document is as
\* it was.
C16_UploadedPatientsJoinCohort ==
    \A c \in UploadCalls :
        LET r == upload_patients_add_to_cohort(patient, models, cohort,
                                               c.mode, c.list)
            n == Len(r.pat_ids)
            members == r.cohort.patient_ids
        IN  IF r.exc = "none"
            THEN /\ n = Len(c.list)
                 /\ Len(members) >= n
                 /\ SubSeq(members, Len(members) - n + 1, Len(members))
                       = r.pat_ids
                 /\ \A k \in 1..n : r.pat_ids[k] = Len(patient) + k
                 /\ r.cohort.number_patients = cohort.number_patients + n
                 /\ \A k \in 1..n :
                       /\ Encloses(r.cohort.height, r.patient[r.pat_ids[k]].height)
                       /\ Encloses(r.cohort.weight, r.patient[r.pat_ids[k]].weight)
            ELSE r.cohort = cohort

\* two series of human 1 have just been uploaded into a cohort that had human
\* 2 as its member
C16_Witness ==
    /\ ret.op = "upload_patients_add_to_cohort"
    /\ ret.exc = "none"
    /\ Len(ret.pat_ids) = 2
    /\ cohort.patient_ids = <<1>> \o ret.pat_ids
    /\ cohort.number_patients = 3
    /\ cohort.height = [min |-> Some(150), max |-> Some(190)]
    /\ cohort.weight = [min |-> Some(60), max |-> Some(80)]

-----------------------------------------------------------------------------
(* Cohort dimension aggregator: missing values *)

\* the bounds widened to take a value in
Folded(b, v) ==
    IF b.min = None /\ b.max = None
    THEN [min |-> v, max |-> v]
    ELSE [min |-> IF v[1] < b.min[1] THEN v ELSE b.min,
          max |-> IF v[1] > b.max[1] THEN v ELSE b.max]

\* C17: adding a patient whose height (resp. weight) is missing completes
\* without error and leaves the cohort's height (resp. weight) min and max
\* exactly as they were, while the other dimension, when the patient has it,
\* is folded into its min and max.
C17_MissingValuesIgnored ==
    \A id_ \in 1..Len(patient) :
        LET r == add_patients_to_cohort(cohort, patient, <<id_>>)
            doc == patient[id_]
        IN  /\ doc.height = None =>
                  /\ r.exc = "none"
                  /\ r.cohort.height = cohort.height
                  /\ doc.weight # None =>
                        r.cohort.weight = Folded(cohort.weight, doc.weight)
            /\ doc.weight = None =>
                  /\ r.exc = "none"
                  /\ r.cohort.weight = cohort.weight
                  /\ doc.height # None =>
                        r.cohort.height = Folded(cohort.height, doc.height)

\* a patient without a height has just been added behind one who has both: the
\* height bounds are those of the first, the weight bounds span the two
C17_Witness ==
    /\ ret.op = "add_patients_to_cohort"
    /\ ret.exc = "none"
    /\ ret.given = 1
    /\ cohort.patient_ids = <<1, 2>>
    /\ patient[1].height = Some(160)
    /\ patient[2].height = None
    /\ cohort.height = [min |-> Some(160), max |-> Some(160)]
    /\ cohort.weight = [min |-> Some(50), max |-> Some(60)]

-----------------------------------------------------------------------------
(* Batch ingestion: checks before the first insert *)

\* the directory a call reads the files of one listed human from
ListedDir(c, k) ==
    IF c.mode = "internal_id_list" THEN <<>> ELSE c.list[k].series

ListedHuman(c, k) ==
    IF c.mode = "internal_id_list" THEN c.list[k] ELSE c.list[k].human

\* a listed patient lacks its patient or its model JSON file
LacksFile(c) ==
    \E k \in 1..Len(c.list) :
        \/ ~FileExists(ListedHuman(c, k), ListedDir(c, k), "patient")
        \/ ~FileExists(ListedHuman(c, k), ListedDir(c, k), "model")

\* a listed patient is in the database already
AlreadyStored(c) ==
    \E p \in ListedPatients(c) : Resolves(patient, p.human, p.series)

\* C18: when any listed patient is in the database already or lacks its
\* patient or model JSON file, upload_patients fails and has inserted no models
\* document and no patient record, for any patient of the batch.
C18_ChecksBeforeFirstInsert ==
    \A c \in UploadCalls :
        (AlreadyStored(c) \/ LacksFile(c)) =>
            LET r == upload_patients(patient, models, c.mode, c.list)
            IN  /\ r.exc # "none"
                /\ r.patient = patient
                /\ r.models = models

\* a batch whose first patient could be uploaded and whose second has no model
\* file has just failed, and no record of the first has been inserted
C18_Witness ==
    /\ ret.op = "upload_patients"
    /\ ret.mode = "patients_list"
    /\ ret.list = <<[human |-> 1, series |-> <<"A">>],
                    [human |-> 3, series |-> <<"A">>]>>
    /\ ret.exc = "FileNotFoundError"
    /\ Len(patient) > 0
    /\ \A i \in 1..Len(patient) : patient[i].internal_id # 1

-----------------------------------------------------------------------------
(* Demographic update: validation and the age domain *)

\* C19: when any field supplied to update_human_demographics is outside its
\* domain, the validation error is raised before any write: no patient record
\* has been modified by the call, the valid fields supplied alongside the
\* invalid one included.
C19_NoWriteBeforeValidation ==
    \A internal_id \in UpdatedIds, kw \in Kwargs :
        OutsideDomain(kw) =>
            update_human_demographics(patient, internal_id, kw).patient = patient

\* C20: for every integer age a from 0 to 120, both included,
\* update_human_demographics(internal_id, age=a) succeeds and afterwards every
\* patient record of that internal id has age a.
C20_EveryAgeInRangeStored ==
    \A internal_id \in UpdatedIds, a \in AgeRange :
        LET r == update_human_demographics(patient, internal_id,
                                           [NoKwargs EXCEPT !.age = Some(a)])
        IN  /\ r.exc = "none"
            /\ \A i \in DocsOf(patient, internal_id) : r.patient[i].age = Some(a)

-----------------------------------------------------------------------------
(* Cohort dimension aggregator: the fold over time *)

\* min is null exactly when max is null, and min <= max when both are set
WellFormed(b) ==
    /\ (b.min = None) <=> (b.max = None)
    /\ (b.min # None /\ b.max # None) => b.min[1] <= b.max[1]

\* from bounds b to bounds c the min has not increased and the max, once set,
\* has not decreased, and c is well formed
MonotoneStep(b, c) ==
    /\ b.min # None => (c.min # None /\ c.min[1] <= b.min[1])
    /\ b.max # None => (c.max # None /\ c.max[1] >= b.max[1])
    /\ WellFormed(c)

\* the heights and weights a patient document may hold, missing included
DimValues == {d.height : d \in Dims} \cup {d.weight : d \in Dims}

\* the bounds a cohort may be found with: both null, or min <= max
WellFormedBounds == {b \in [min : DimValues, max : DimValues] : WellFormed(b)}

\* C21: the cohort fold is monotone.  Over any sequence of
\* add_patients_to_cohort and set_max_min_patient_dimensions_in_cohort calls on
\* a cohort whose bounds are both null or satisfy min <= max, each of
\* height.min and weight.min never increases, each of height.max and
\* weight.max never decreases once set, min is null exactly when max is null,
\* and min <= max whenever both are set: every step of the two calls is
\* monotone, and so is one pass of either loop body from any such bounds.
C21_CohortFoldMonotone ==
    /\ [](/\ WellFormed(cohort.height)
          /\ WellFormed(cohort.weight)
          /\ \A b \in WellFormedBounds, v \in DimValues :
                /\ MonotoneStep(b, UpdateDim(b, v))
                /\ MonotoneStep(b, SetDim(b, v)))
    /\ [][/\ MonotoneStep(cohort.height, cohort'.height)
          /\ MonotoneStep(cohort.weight, cohort'.weight)]_vars

\* a call handed one id has just left a cohort of two members whose height
\* and weight bounds were set by one member and widened by the other
C21_Witness ==
    /\ ret.op = "add_patients_to_cohort"
    /\ ret.exc = "none"
    /\ ret.given = 1
    /\ Len(cohort.patient_ids) = 2
    /\ cohort.height = [min |-> Some(160), max |-> Some(180)]
    /\ cohort.weight = [min |-> Some(50), max |-> Some(70)]

-----------------------------------------------------------------------------
(* Batch loader: failed uploads *)

\* C22: whenever upload_patients ends in an error, a batch that lists the same
\* (internal id, series) twice included, the patient and models collections
\* are exactly as they were before the call: no patient record and no models
\* document of part of the batch is left behind.
C22_FailedUploadLeavesNothing ==
    \A c \in UploadCalls :
        LET r == upload_patients(patient, models, c.mode, c.list)
        IN  r.exc # "none" => (r.patient = patient /\ r.models = models)

-----------------------------------------------------------------------------
(* Cohort dimension aggregator: members and bounds *)

\* the members of the cohort that are patient documents
Members(coh, pat) ==
    {coh.patient_ids[k] :
        k \in {n \in 1..Len(coh.patient_ids) :
                 PatientExists(pat, coh.patient_ids[n])}}

\* C23: in every state reachable by add_patients_to_cohort,
\* set_max_min_patient_dimensions_in_cohort and update_human_demographics calls
\* from a cohort with no members and null bounds, every member patient's
\* non-missing height lies between the cohort's height.min and height.max, and
\* every member's non-missing weight lies between weight.min and weight.max.
C23_MembersWithinBounds ==
    \A id_ \in Members(cohort, patient) :
        /\ Encloses(cohort.height, patient[id_].height)
        /\ Encloses(cohort.weight, patient[id_].weight)

====
